---- MODULE Spec2Model ----
(***************************************************************************)
(* Model of compress.py: batch compression of the PDF files of a directory *)
(* tree by an external engine (ghostscript), with a worker pool, an        *)
(* interrupt handler and two reports (CSV, HTML).                          *)
(*                                                                         *)
(* A path is a string; the string functions of the code (str.replace,      *)
(* str.lower, str.endswith, os.path.basename) are computed character by    *)
(* character on its spelling, a sequence of one-character strings.         *)
(* Sizes are byte counts; the values the code formats with :.2f are kept   *)
(* as integers in hundredths of the unit.                                  *)
(***************************************************************************)
EXTENDS Integers, Sequences, FiniteSets, TLC

\* ------------------------------------------------------------------ bounds
\* Largest number of files present under the root directory at start.
MaxFiles == 2

\* ------------------------------------------------------------------ strings
Str_pdf == <<".", "p", "d", "f">>
Str_compressed_pdf == <<"_", "c", "o", "m", "p", "r", "e", "s", "s", "e", "d", ".", "p", "d", "f">>

\* str.lower() on one character, over the letters the model's names use.
LowerChar(c) ==
    CASE c = "A" -> "a"
      [] c = "B" -> "b"
      [] c = "P" -> "p"
      [] c = "D" -> "d"
      [] c = "F" -> "f"
      [] OTHER -> c

Lower(s) == [i \in 1..Len(s) |-> LowerChar(s[i])]

StartsWith(s, pre) ==
    /\ Len(s) >= Len(pre)
    /\ SubSeq(s, 1, Len(pre)) = pre

EndsWith(s, suf) ==
    /\ Len(s) >= Len(suf)
    /\ SubSeq(s, Len(s) - Len(suf) + 1, Len(s)) = suf

\* str.replace(old, new): every non-overlapping occurrence, left to right,
\* compared case-sensitively.
RECURSIVE Replace(_, _, _)
Replace(s, old, new) ==
    IF s = <<>> THEN <<>>
    ELSE IF StartsWith(s, old)
         THEN new \o Replace(SubSeq(s, Len(old) + 1, Len(s)), old, new)
         ELSE <<Head(s)>> \o Replace(Tail(s), old, new)

\* Index of the last "/" of a path, 0 when it has none.
LastSlash(p) ==
    LET S == {i \in 1..Len(p) : p[i] = "/"}
    IN IF S = {} THEN 0 ELSE CHOOSE i \in S : \A k \in S : k <= i

\* The spelling of every string the model's runs meet.
Spelling ==
       (""                               :> <<>>)
    @@ ("s"                              :> <<"s">>)
    @@ ("a.pdf"                          :> <<"a", ".", "p", "d", "f">>)
    @@ ("a_compressed.pdf"               :> <<"a", "_", "c", "o", "m", "p", "r", "e", "s", "s", "e", "d", ".", "p", "d", "f">>)
    @@ ("a_compressed_compressed.pdf"    :> <<"a", "_", "c", "o", "m", "p", "r", "e", "s", "s", "e", "d", "_", "c", "o", "m", "p", "r", "e", "s", "s", "e", "d", ".", "p", "d", "f">>)
    @@ ("s/B.PDF"                        :> <<"s", "/", "B", ".", "P", "D", "F">>)
    @@ ("B.PDF"                          :> <<"B", ".", "P", "D", "F">>)
    @@ ("s/a.pdf"                        :> <<"s", "/", "a", ".", "p", "d", "f">>)
    @@ ("s/a_compressed.pdf"             :> <<"s", "/", "a", "_", "c", "o", "m", "p", "r", "e", "s", "s", "e", "d", ".", "p", "d", "f">>)
    @@ ("file:///w/s/a.pdf"              :> <<"f", "i", "l", "e", ":", "/", "/", "/", "w", "/", "s", "/", "a", ".", "p", "d", "f">>)
    @@ ("n.txt"                          :> <<"n", ".", "t", "x", "t">>)
    @@ ("r.log"                          :> <<"r", ".", "l", "o", "g">>)
    @@ ("o.pdf"                          :> <<"o", ".", "p", "d", "f">>)
    @@ ("file:///w/a.pdf"                :> <<"f", "i", "l", "e", ":", "/", "/", "/", "w", "/", "a", ".", "p", "d", "f">>)
    @@ ("file:///w/a_compressed.pdf"     :> <<"f", "i", "l", "e", ":", "/", "/", "/", "w", "/", "a", "_", "c", "o", "m", "p", "r", "e", "s", "s", "e", "d", ".", "p", "d", "f">>)
    @@ ("file:///w/s/B.PDF"              :> <<"f", "i", "l", "e", ":", "/", "/", "/", "w", "/", "s", "/", "B", ".", "P", "D", "F">>)
    @@ ("file:///w/n.txt"                :> <<"f", "i", "l", "e", ":", "/", "/", "/", "w", "/", "n", ".", "t", "x", "t">>)
    @@ ("file:///w/o.pdf"                :> <<"f", "i", "l", "e", ":", "/", "/", "/", "w", "/", "o", ".", "p", "d", "f">>)
Chars(str) == Spelling[str]
Str(spelt) == CHOOSE str \in DOMAIN Spelling : Spelling[str] = spelt

Basename(p) == Str(SubSeq(Chars(p), LastSlash(Chars(p)) + 1, Len(Chars(p))))
Dirname(p) == Str(SubSeq(Chars(p), 1, LastSlash(Chars(p)) - 1))

\* The working directory of the process, and os.path.abspath on a spelling.
Cwd == <<"/", "w">>
AbsPath(spelt) ==
    IF StartsWith(spelt, <<"/">>) THEN spelt ELSE Cwd \o <<"/">> \o spelt

\* Line 106: f"file://{os.path.abspath(file_path)}"
FileUrl(p) == Str(<<"f", "i", "l", "e", ":", "/", "/">> \o AbsPath(Chars(p)))

\* Line 95: the output path handed to the engine.
CompressedPath(file_path) == Str(Replace(Chars(file_path), Str_pdf, Str_compressed_pdf))

\* ------------------------------------------------------------------ files
\* The names a file under the root can have (paths relative to the root, as
\* os.walk joins them).
Name_a == "a.pdf"
Name_a_compressed == "a_compressed.pdf"
Name_B == "s/B.PDF"
Name_sa == "s/a.pdf"
Name_n == "n.txt"
Names == {Name_a, Name_a_compressed, Name_B, Name_sa, Name_n}

\* The log file a run can be given with --log-file.
LogPath == "r.log"
NoLog == ""

Paths == Names \cup {CompressedPath(n) : n \in Names} \cup {LogPath}

MB == 1024 * 1024
\* Sizes (bytes) of the files present at start, and sizes of an engine output.
Sizes == {1 * MB, 3 * MB}
OutSizes == {2 * MB, 3 * MB}
\* Elapsed time of a job, in hundredths of a second (it is only reported).
Elapsed == {125}

\* What a path holds.
NoFile == [kind |-> "absent", of |-> "", size |-> 0]
Orig(p, s) == [kind |-> "orig", of |-> p, size |-> s]
Partial(p) == [kind |-> "partial", of |-> p, size |-> 0]
Output(p, s) == [kind |-> "output", of |-> p, size |-> s]
LogContent == [kind |-> "log", of |-> LogPath, size |-> 0]

Exists(f, p) == f[p] # NoFile

\* ------------------------------------------------------------------ outcomes
\* f"{x / (1024 * 1024):.2f}" of a byte count, in hundredths of a MB.
FormatMB(bytes) == (bytes * 100 + MB \div 2) \div MB
\* f"{original_size_mb * 0.8:.2f}", in hundredths of a MB.
FormatDryMB(bytes) == (bytes * 80 + MB \div 2) \div MB
\* f"{100 * (1 - new_size / original_size):.2f}", in hundredths of a percent
\* (original_size > 0 and new_size <= original_size where it is recorded).
\* The quotient is taken two decimal digits at a time, as in long division.
FormatReduction(original_size, new_size) ==
    LET percent == (100 * (original_size - new_size)) \div original_size
        rest == (100 * (original_size - new_size)) % original_size
        hundredths == (100 * rest) \div original_size
        last == (100 * rest) % original_size
    IN 100 * percent + hundredths + (IF 2 * last >= original_size THEN 1 ELSE 0)

\* The dictionary with the base name put where the path belongs.
OutcomeDictNameAsLocation(file_path, original, compressed, reduction, time_taken) ==
    ("File Name" :> Basename(file_path))
    @@ ("File Location" :> Basename(file_path))
    @@ ("Original Size (MB)" :> original)
    @@ ("Compressed Size (MB)" :> compressed)
    @@ ("Size Reduction (%)" :> reduction)
    @@ ("Time Taken (seconds)" :> time_taken)
    @@ ("Compressed PDF" :> FileUrl(file_path))

\* The dictionary compress_pdf_with_ghostscript returns.
OutcomeDict(file_path, original, compressed, reduction, time_taken) ==
    ("File Name" :> Basename(file_path))
    @@ ("File Location" :> file_path)
    @@ ("Original Size (MB)" :> original)
    @@ ("Compressed Size (MB)" :> compressed)
    @@ ("Size Reduction (%)" :> reduction)
    @@ ("Time Taken (seconds)" :> time_taken)
    @@ ("Compressed PDF" :> FileUrl(file_path))

DryRunOutcome(file_path, original_size) ==
    OutcomeDict(file_path, FormatMB(original_size), FormatDryMB(original_size), 2000, 0)

RealOutcome(file_path, original_size, new_size, time_taken) ==
    OutcomeDict(file_path, FormatMB(original_size), FormatMB(new_size),
                FormatReduction(original_size, new_size), time_taken)

\* What a call of compress_pdf_with_ghostscript ends with.
Pending == <<"pending">>
RetNone(why) == <<"none", why>>
RetOutcome(d) == <<"outcome", d>>
Raised(exc) == <<"raised", exc>>

\* ------------------------------------------------------------------ reports
fieldnames ==
    {"File Name", "Original Size (MB)", "Compressed Size (MB)",
     "Size Reduction (%)", "Time Taken (seconds)"}

\* csv.DictWriter._dict_to_list with the default extrasaction='raise'.
WrongFields(rowdict) == (DOMAIN rowdict) \ fieldnames
DictToList(rowdict) == [k \in fieldnames |-> rowdict[k]]

HeaderRow == <<"header">>
DataRow(rowdict) == <<"row", DictToList(rowdict)>>
\* An HTML table row: the seven values of the entry.
HtmlRow(entry) == <<"tr", entry>>

\* A report file is a sequence of rows, or absent.
Absent == <<"absent">>
File(rows) == <<"file", rows>>
Rows(report) == report[2]

\* A row that the reports can already hold when a run starts.
OldOutcome == OutcomeDict("o.pdf", 500, 400, 2000, 0)
ReportsAtStart ==
    { <<Absent, Absent>>,
      <<File(<<HeaderRow, DataRow(OldOutcome)>>), File(<<HtmlRow(OldOutcome)>>)>> }

\* ------------------------------------------------------------------ state
VARIABLES
    fs,               \* the file system: path -> what it holds
    fs_start,         \* the file system when the run started (never changes)
    dry_run,          \* --dry-run
    min_size,         \* --min-size, in MB
    log_file,         \* --log-file, NoLog when not given
    max_threads,      \* --max-threads, 0 when not given
    stop_execution,   \* the global flag of line 27
    main,             \* where the main process is
    pdf_files,        \* the discovered jobs, in discovery order
    pc,               \* job index -> where its call of compress_pdf_with_ghostscript is
    original_size,    \* job index -> the size read at line 93
    new_size,         \* job index -> the size read at line 123
    ret,              \* job index -> how the call ended
    gs_calls,         \* the <<input path, output path>> pairs the engine was started with
    results,          \* the list of line 166
    progress,         \* number of progress.update(task, advance=1) calls
    csv,              \* compression_report.csv
    csv_start,        \* compression_report.csv when the run started (never changes)
    html              \* compression_report.html

vars ==
    <<fs, fs_start, dry_run, min_size, log_file, max_threads, stop_execution, main,
      pdf_files, pc, original_size, new_size, ret, gs_calls, results, progress,
      csv, csv_start, html>>

config == <<dry_run, min_size, log_file, max_threads, fs_start, csv_start>>

\* os.cpu_count() of the machine.
CpuCount == 2

Jobs == 1..Len(pdf_files)
InFlight == {"started", "engine", "written", "reject", "replace"}
Running == {i \in Jobs : pc[i] \in InFlight}

\* The file systems a run can start on: at most MaxFiles files under the root.
DisksAtStart ==
    UNION { { [p \in Paths |-> IF p \in D THEN Orig(p, sz[p]) ELSE NoFile] : sz \in [D -> Sizes] }
            : D \in {X \in SUBSET Names : Cardinality(X) <= MaxFiles} }

Init ==
    /\ fs \in DisksAtStart
    /\ fs_start = fs
    /\ dry_run \in BOOLEAN
    /\ min_size \in {0, 2}
    /\ log_file \in {NoLog, LogPath}
    /\ max_threads \in {0, 1}
    /\ stop_execution = FALSE
    /\ main = "start"
    /\ pdf_files = <<>>
    /\ pc = <<>>
    /\ original_size = <<>>
    /\ new_size = <<>>
    /\ ret = <<>>
    /\ gs_calls = {}
    /\ results = <<>>
    /\ progress = 0
    /\ \E r \in ReportsAtStart : csv = r[1] /\ html = r[2]
    /\ csv_start = csv

\* ------------------------------------------------------------------ discovery
\* The filter without lower(): the extension compared as it is spelt.
IsPdfJobCaseSensitive(f, p, min) ==
    /\ p \in Names
    /\ Exists(f, p)
    /\ EndsWith(Chars(Basename(p)), Str_pdf)
    /\ f[p].size >= min * MB

\* Line 160: the filter of the list comprehension.
IsPdfJob(f, p, min) ==
    /\ p \in Names
    /\ Exists(f, p)
    /\ EndsWith(Lower(Chars(Basename(p))), Str_pdf)
    /\ f[p].size >= min * MB

\* The orders os.walk (top-down) can list a set of files in: the files of
\* the root before those of its subdirectories, each directory's files in
\* the order the operating system lists them.
WalkOrders(S) ==
    { q \in [1..Cardinality(S) -> S] :
        /\ \A i, j \in 1..Cardinality(S) : i # j => q[i] # q[j]
        /\ \A i, j \in 1..Cardinality(S) :
              (Dirname(q[i]) = "" /\ Dirname(q[j]) # "") => i < j }

\* Lines 155-168: open the log file, discover the jobs, return when there is
\* none, otherwise create the pool and hand it the jobs.
StartRun ==
    /\ main = "start"
    /\ LET opened == IF log_file = NoLog THEN fs
                     ELSE [fs EXCEPT ![log_file] = LogContent]
           found == {p \in Names : IsPdfJob(opened, p, min_size)}
       IN /\ fs' = opened
          /\ \E q \in WalkOrders(found) :
                /\ pdf_files' = q
                /\ pc' = [i \in 1..Len(q) |-> "queued"]
                /\ original_size' = [i \in 1..Len(q) |-> 0]
                /\ new_size' = [i \in 1..Len(q) |-> 0]
                /\ ret' = [i \in 1..Len(q) |-> Pending]
                /\ main' = IF Len(q) = 0 THEN "done" ELSE "loop"
    /\ UNCHANGED <<config, stop_execution, gs_calls, results, progress, csv, html>>

\* ------------------------------------------------------------------ one job
\* Pool(max_threads or cpu_count())
Processes == IF max_threads = 0 THEN CpuCount ELSE max_threads

\* The call of job i ends: it returns r, or raises when r is Raised(..).
Return(i, r) ==
    /\ pc' = [pc EXCEPT ![i] = "done"]
    /\ ret' = [ret EXCEPT ![i] = r]

\* The main process and its pool are past doing anything for the job.
MainUnchanged == UNCHANGED <<config, stop_execution, main, pdf_files, results, progress, csv, html>>

\* Line 90, "if stop_execution": the call returns None at once.
CancelledNever(flag) == FALSE
Cancelled(flag) == flag

\* Line 97, "if dry_run": the call stops here with a simulated outcome.
SimulatedNever(flag) == FALSE
Simulated(flag) == flag

\* Lines 89-107: a pool worker takes job i (tasks leave the queue in order,
\* one per free worker) and runs the call up to the dry-run return or up to
\* the engine invocation.
Begin(i) ==
    /\ main = "loop"
    /\ pc[i] = "queued"
    /\ \A k \in Jobs : k < i => pc[k] # "queued"
    /\ Cardinality(Running) < Processes
    /\ LET file_path == pdf_files[i]
       IN IF Cancelled(stop_execution)
            THEN /\ Return(i, RetNone("stopped"))
                 /\ UNCHANGED original_size
          ELSE IF ~Exists(fs, file_path)
            THEN /\ Return(i, Raised("FileNotFoundError"))
                 /\ UNCHANGED original_size
          ELSE /\ original_size' = [original_size EXCEPT ![i] = fs[file_path].size]
               /\ IF Simulated(dry_run)
                    THEN Return(i, RetOutcome(DryRunOutcome(file_path, fs[file_path].size)))
                    ELSE /\ pc' = [pc EXCEPT ![i] = "started"]
                         /\ UNCHANGED ret
    /\ UNCHANGED <<fs, new_size, gs_calls>>
    /\ MainUnchanged

\* Line 122, the engine: an external process given the input path and
\* -sOutputFile. It creates (or truncates) the output file and writes it.
EngineOpens(i) ==
    /\ main = "loop"
    /\ pc[i] = "started"
    /\ LET file_path == pdf_files[i]
           compressed_file_path == CompressedPath(file_path)
       IN /\ gs_calls' = gs_calls \cup {<<file_path, compressed_file_path>>}
          /\ fs' = [fs EXCEPT ![compressed_file_path] = Partial(file_path)]
    /\ pc' = [pc EXCEPT ![i] = "engine"]
    /\ UNCHANGED <<original_size, new_size, ret>>
    /\ MainUnchanged

\* Line 122: the engine fails before it creates its output (check=True
\* raises CalledProcessError).
EngineFailsAtOnce(i) ==
    /\ main = "loop"
    /\ pc[i] = "started"
    /\ gs_calls' = gs_calls \cup {<<pdf_files[i], CompressedPath(pdf_files[i])>>}
    /\ Return(i, Raised("CalledProcessError"))
    /\ UNCHANGED <<fs, original_size, new_size>>
    /\ MainUnchanged

\* Line 122: the engine fails while writing; what it wrote stays on disk.
EngineFails(i) ==
    /\ main = "loop"
    /\ pc[i] = "engine"
    /\ Return(i, Raised("CalledProcessError"))
    /\ UNCHANGED <<fs, original_size, new_size, gs_calls>>
    /\ MainUnchanged

\* Line 122: the engine exits 0, its output complete.
EngineSucceeds(i) ==
    /\ main = "loop"
    /\ pc[i] = "engine"
    /\ \E s \in OutSizes :
         fs' = [fs EXCEPT ![CompressedPath(pdf_files[i])] = Output(pdf_files[i], s)]
    /\ pc' = [pc EXCEPT ![i] = "written"]
    /\ UNCHANGED <<original_size, new_size, ret, gs_calls>>
    /\ MainUnchanged

\* Line 127: the test that rejects an output.
Regressed(new, original) == new > original

\* Lines 123-127: measure the output and compare.
Measure(i) ==
    /\ main = "loop"
    /\ pc[i] = "written"
    /\ LET compressed_file_path == CompressedPath(pdf_files[i])
       IN IF ~Exists(fs, compressed_file_path)
            THEN /\ Return(i, Raised("FileNotFoundError"))
                 /\ UNCHANGED new_size
          ELSE /\ new_size' = [new_size EXCEPT ![i] = fs[compressed_file_path].size]
               /\ IF original_size[i] = 0
                    THEN Return(i, Raised("ZeroDivisionError"))
                    ELSE /\ pc' = [pc EXCEPT ![i] =
                                     IF Regressed(fs[compressed_file_path].size, original_size[i])
                                     THEN "reject" ELSE "replace"]
                         /\ UNCHANGED ret
    /\ UNCHANGED <<fs, original_size, gs_calls>>
    /\ MainUnchanged

\* Lines 128-133: os.remove(compressed_file_path), return None.
Reject(i) ==
    /\ main = "loop"
    /\ pc[i] = "reject"
    /\ LET compressed_file_path == CompressedPath(pdf_files[i])
       IN IF ~Exists(fs, compressed_file_path)
            THEN /\ Return(i, Raised("FileNotFoundError"))
                 /\ UNCHANGED fs
            ELSE /\ fs' = [fs EXCEPT ![compressed_file_path] = NoFile]
                 /\ Return(i, RetNone("larger"))
    /\ UNCHANGED <<original_size, new_size, gs_calls>>
    /\ MainUnchanged

\* os.replace(src, dst): one rename; nothing changes when src is dst.
OsReplace(f, src, dst) ==
    IF src = dst THEN f ELSE [f EXCEPT ![dst] = f[src], ![src] = NoFile]

\* Lines 135-152: os.replace(compressed_file_path, file_path), return the
\* outcome.
ReplaceOriginal(i) ==
    /\ main = "loop"
    /\ pc[i] = "replace"
    /\ LET file_path == pdf_files[i]
           compressed_file_path == CompressedPath(file_path)
       IN IF ~Exists(fs, compressed_file_path)
            THEN /\ Return(i, Raised("FileNotFoundError"))
                 /\ UNCHANGED fs
            ELSE /\ fs' = OsReplace(fs, compressed_file_path, file_path)
                 /\ \E time_taken \in Elapsed :
                      Return(i, RetOutcome(RealOutcome(file_path, original_size[i],
                                                       new_size[i], time_taken)))
    /\ UNCHANGED <<original_size, new_size, gs_calls>>
    /\ MainUnchanged

\* ------------------------------------------------------------------ main process
\* Leaving the "with Pool(...)" block, normally or by an exception, runs
\* Pool.terminate(): the worker processes are stopped where they are and
\* queued tasks are dropped.
Terminated == [i \in Jobs |-> IF pc[i] \in InFlight THEN "killed" ELSE pc[i]]

\* Line 171: "if result".
Truthy(r) == r[1] = "outcome"

\* Line 170: pool.imap yields the results in the order of the jobs, so after
\* n results the next one is that of job n + 1.
NextResultFromLast(n) == Len(pdf_files) - n
NextResult(n) == n + 1

\* Lines 170-173: the next result of pool.imap, in job order. A call that
\* raised has its exception re-raised here; nothing catches it, so it leaves
\* compress_pdfs_in_directory.
Consume ==
    /\ main = "loop"
    /\ progress < Len(pdf_files)
    /\ LET i == NextResult(progress)
       IN /\ pc[i] = "done"
          /\ IF ret[i][1] = "raised"
               THEN /\ main' = "raised"
                    /\ pc' = Terminated
                    /\ UNCHANGED <<results, progress>>
               ELSE /\ results' = IF Truthy(ret[i]) THEN Append(results, ret[i][2]) ELSE results
                    /\ progress' = progress + 1
                    /\ main' = IF progress + 1 = Len(pdf_files) THEN "csv_header" ELSE "loop"
                    /\ UNCHANGED pc
    /\ UNCHANGED <<config, fs, stop_execution, pdf_files, original_size, new_size, ret,
                   gs_calls, csv, html>>

\* Line 170: the callable given to pool.imap is a lambda. The pool sends a
\* task to a worker by pickling it, the standard pickler refuses a lambda,
\* and the error is raised by the first next() of the imap iterator; no job
\* starts. With a pool that can ship the callable the jobs run (the actions
\* above).
PoolRejectsTask ==
    /\ main = "loop"
    /\ \A i \in Jobs : pc[i] = "queued"
    /\ main' = "raised"
    /\ UNCHANGED <<config, fs, stop_execution, pdf_files, pc, original_size, new_size, ret,
                   gs_calls, results, progress, csv, html>>

\* Lines 41-43: write the header when the report does not exist.
CsvHeader ==
    /\ main = "csv_header"
    /\ csv' = IF csv = Absent THEN File(<<HeaderRow>>) ELSE csv
    /\ main' = "csv_rows"
    /\ UNCHANGED <<config, fs, stop_execution, pdf_files, pc, original_size, new_size, ret,
                   gs_calls, results, progress, html>>

\* writerows(data): every dictionary is converted before a row is written;
\* one with a key outside fieldnames makes the conversion raise ValueError.
WriteRows(report, data) ==
    IF \E k \in 1..Len(data) : WrongFields(data[k]) # {}
    THEN <<"raised", report>>
    ELSE <<"written", File(Rows(report) \o [k \in 1..Len(data) |-> DataRow(data[k])])>>

\* Lines 44-45: append the rows.
CsvRows ==
    /\ main = "csv_rows"
    /\ LET w == WriteRows(csv, results)
       IN /\ csv' = w[2]
          /\ main' = IF w[1] = "raised" THEN "raised" ELSE "html"
    /\ UNCHANGED <<config, fs, stop_execution, pdf_files, pc, original_size, new_size, ret,
                   gs_calls, results, progress, html>>

\* Lines 49-86: the document is built from data alone and the file is opened
\* with mode 'w', which discards what it held.
HtmlAppended(report, data) ==
    File((IF report = Absent THEN <<>> ELSE Rows(report))
         \o [k \in 1..Len(data) |-> HtmlRow(data[k])])
HtmlWritten(report, data) == File([k \in 1..Len(data) |-> HtmlRow(data[k])])

\* Lines 48-86: the HTML report, written anew.
CreateHtmlReport ==
    /\ main = "html"
    /\ html' = HtmlWritten(html, results)
    /\ main' = "done"
    /\ UNCHANGED <<config, fs, stop_execution, pdf_files, pc, original_size, new_size, ret,
                   gs_calls, results, progress, csv>>

\* The handler without its sys.exit(0): the flag is set and the run goes on.
SignalHandlerSetsFlagOnly ==
    /\ main \in {"start", "loop", "csv_header", "csv_rows", "html"}
    /\ ~stop_execution
    /\ stop_execution' = TRUE
    /\ UNCHANGED <<config, fs, main, pdf_files, pc, original_size, new_size, ret, gs_calls,
                   results, progress, csv, html>>

\* Lines 30-34, the SIGINT handler: set the flag, then sys.exit(0). SystemExit
\* unwinds the main process at once (out of the pool block when it is in it,
\* which terminates the workers) and the process exits.
SignalHandler ==
    /\ main \in {"start", "loop", "csv_header", "csv_rows", "html"}
    /\ stop_execution' = TRUE
    /\ main' = "exited"
    /\ pc' = Terminated
    /\ UNCHANGED <<config, fs, pdf_files, original_size, new_size, ret, gs_calls, results,
                   progress, csv, html>>

Next ==
    \/ StartRun
    \/ \E i \in Jobs : Begin(i)
    \/ \E i \in Jobs : EngineOpens(i)
    \/ \E i \in Jobs : EngineFailsAtOnce(i)
    \/ \E i \in Jobs : EngineFails(i)
    \/ \E i \in Jobs : EngineSucceeds(i)
    \/ \E i \in Jobs : Measure(i)
    \/ \E i \in Jobs : Reject(i)
    \/ \E i \in Jobs : ReplaceOriginal(i)
    \/ Consume
    \/ PoolRejectsTask
    \/ CsvHeader
    \/ CsvRows
    \/ CreateHtmlReport
    \/ SignalHandler

Spec == Init /\ [][Next]_vars

\* ------------------------------------------------------------------ one call
\* compress_pdf_with_ghostscript(file_path, dry_run) called once, for any
\* name, on any file system, with the flag set or not.
CallInit ==
    /\ fs \in DisksAtStart
    /\ fs_start = fs
    /\ dry_run \in BOOLEAN
    /\ stop_execution \in BOOLEAN
    /\ \E file_path \in Names : pdf_files = <<file_path>>
    /\ pc = <<"queued">>
    /\ original_size = <<0>>
    /\ new_size = <<0>>
    /\ ret = <<Pending>>
    /\ main = "loop"
    /\ min_size = 0
    /\ log_file = NoLog
    /\ max_threads = 0
    /\ gs_calls = {}
    /\ results = <<>>
    /\ progress = 0
    /\ csv = Absent
    /\ html = Absent
    /\ csv_start = Absent

CallNext ==
    \/ \E i \in Jobs : Begin(i)
    \/ \E i \in Jobs : EngineOpens(i)
    \/ \E i \in Jobs : EngineFailsAtOnce(i)
    \/ \E i \in Jobs : EngineFails(i)
    \/ \E i \in Jobs : EngineSucceeds(i)
    \/ \E i \in Jobs : Measure(i)
    \/ \E i \in Jobs : Reject(i)
    \/ \E i \in Jobs : ReplaceOriginal(i)

CallSpec == CallInit /\ [][CallNext]_vars

\* ------------------------------------------------------------------ properties
\* The run is over: compress_pdfs_in_directory returned, or an exception or
\* sys.exit left it.
RunEnded == main \in {"done", "raised", "exited"}
\* create_csv_report was called and has returned or raised.
CsvReportCalled ==
    \/ main \in {"html", "done"}
    \/ main = "raised" /\ Len(pdf_files) > 0 /\ progress = Len(pdf_files)
InReport(report, row) ==
    /\ report # Absent
    /\ \E k \in 1..Len(Rows(report)) : Rows(report)[k] = row
\* The job's engine wrote what the path holds.
WrittenFor(i, p) == fs[p].kind \in {"partial", "output"} /\ fs[p].of = pdf_files[i]

\* C1: a failure of the engine for one job never aborts the run: the main
\* process is never ended by the CalledProcessError of a job (it goes on to
\* the other jobs and to the reports).
C1_EngineFailureNeverAbortsRun ==
    ~(/\ main = "raised"
      /\ progress < Len(pdf_files)
      /\ ret[progress + 1] = Raised("CalledProcessError"))

\* C2: when a call of compress_pdf_with_ghostscript has returned or raised,
\* the temporary output the engine wrote for that job is no longer at the
\* job's temporary path.
C2_TempGoneAfterCall ==
    \A i \in Jobs :
        pc[i] = "done" => ~WrittenFor(i, CompressedPath(pdf_files[i]))

\* C3: the output path handed to the engine is never the source path, and
\* is a sibling of it (same directory).
C3_EngineNeverWritesSource ==
    \A c \in gs_calls : c[2] # c[1] /\ Dirname(c[2]) = Dirname(c[1])

\* C4: when a job yields no outcome because the engine failed or because the
\* output is larger than the original, the original file holds exactly what
\* it held before the call.
C4_OriginalKeptWhenNoOutcome ==
    \A i \in Jobs :
        (pc[i] = "done" /\ ret[i] \in {RetNone("larger"), Raised("CalledProcessError")})
            => fs[pdf_files[i]] = fs_start[pdf_files[i]]

\* C5: in every reachable state (so wherever the process is killed) the path
\* of every job holds the complete original or the complete engine output
\* for it, never a partial file and never no file.
C5_OriginalAlwaysWhole ==
    \A i \in Jobs :
        \/ fs[pdf_files[i]] = fs_start[pdf_files[i]]
        \/ fs[pdf_files[i]].kind = "output" /\ fs[pdf_files[i]].of = pdf_files[i]

\* C6: once the interrupt has set the cancellation flag, every job that was
\* in flight runs to its normal end: none is stopped before its replace or
\* reject step.
C6_InFlightJobsFinishAfterInterrupt ==
    stop_execution => \A i \in Jobs : pc[i] # "killed"

\* C7: for two distinct discovered jobs, the temporary path of one is neither
\* the temporary path nor the source path of the other.
C7_TempPathsUnique ==
    \A i, j \in Jobs :
        i # j => /\ CompressedPath(pdf_files[i]) # CompressedPath(pdf_files[j])
                 /\ CompressedPath(pdf_files[i]) # pdf_files[j]

\* C8 as stated: in dry-run mode no file other than the reports is created,
\* modified, removed or renamed, and the engine is never invoked.
C8_DryRunTouchesNothing ==
    dry_run => (gs_calls = {} /\ fs = fs_start)

\* C8 as amended: in dry-run mode no file other than the reports and the
\* log file given with --log-file is created, modified, removed or renamed,
\* and the engine is never invoked.
C8_DryRunTouchesOnlyLog ==
    dry_run => /\ gs_calls = {}
               /\ \A p \in Paths : p # log_file => fs[p] = fs_start[p]

\* C8 witness: a dry run with a log file has simulated every job.
C8_Witness ==
    /\ dry_run
    /\ log_file # NoLog
    /\ Len(pdf_files) = MaxFiles
    /\ progress = Len(pdf_files)
    /\ Len(results) = Len(pdf_files)

\* C9: after a run that collected its outcomes, every outcome has a row in
\* the CSV report and an entry in the HTML report with the same values (so
\* none is in one report and not in the other).
C9_EveryOutcomeInBothReports ==
    (RunEnded /\ progress = Len(pdf_files))
        => \A k \in 1..Len(results) :
              /\ InReport(csv, DataRow(results[k]))
              /\ InReport(html, HtmlRow(results[k]))

\* C10: the CSV report is append-only: once create_csv_report has run, the
\* report is what it was before the run (a header when it did not exist),
\* followed by one row per outcome of the run, in order.
C10_CsvAppendOnly ==
    CsvReportCalled
        => csv = File((IF csv_start = Absent THEN <<HeaderRow>> ELSE Rows(csv_start))
                      \o [k \in 1..Len(results) |-> DataRow(results[k])])

\* C11 as stated: after any run that completes normally, also one that
\* discovers no file, the HTML report holds exactly one entry per outcome of
\* that run and no entry of an earlier run.
C11_HtmlFreshAfterEveryRun ==
    main = "done" => html = File([k \in 1..Len(results) |-> HtmlRow(results[k])])

\* C11 as amended: after any run that discovers at least one file and
\* completes normally, the HTML report holds exactly one entry per outcome
\* of that run, in order, and no entry of an earlier run.
C11_HtmlFreshAfterRunWithJobs ==
    (main = "done" /\ Len(pdf_files) > 0)
        => html = File([k \in 1..Len(results) |-> HtmlRow(results[k])])

\* C11 witness: a run over discovered files has completed, and the reports
\* held an earlier entry when it started.
C11_Witness ==
    /\ main = "done"
    /\ Len(pdf_files) > 0
    /\ csv_start = File(<<HeaderRow, DataRow(OldOutcome)>>)
    /\ ~InReport(html, HtmlRow(OldOutcome))

\* C12: once the interrupt handler has run, neither the CSV report nor the
\* HTML report is written or appended to.
C12_NoReportWriteAfterInterrupt ==
    [][stop_execution => (csv' = csv /\ html' = html)]_vars

\* C12 witness: the interrupt came between the writing of the CSV header and
\* the rest of the reports.
C12_Witness ==
    /\ stop_execution
    /\ csv_start = Absent
    /\ csv = File(<<HeaderRow>>)
    /\ html = Absent
    /\ progress = Len(pdf_files)

\* The jobs an outcome can come from, by the name and by the path it records.
JobsNamed(name) == {i \in Jobs : Basename(pdf_files[i]) = name}
JobsAt(location) == {i \in Jobs : pdf_files[i] = location}
\* The job ended, or was dropped, without an outcome.
NoOutcome(i) == pc[i] \in {"queued", "killed"} \/ (pc[i] = "done" /\ ret[i][1] # "outcome")

\* C13 as stated: there are at most as many outcomes as jobs, and the file
\* name recorded in each outcome is that of exactly one discovered job.
C13_OutcomeNameIsOneJob ==
    /\ Len(results) <= Len(pdf_files)
    /\ \A k \in 1..Len(results) : Cardinality(JobsNamed(results[k]["File Name"])) = 1

\* C13 as amended: every job yields at most one outcome, so there are at
\* most as many outcomes as jobs; the file location recorded in each outcome
\* is the path of exactly one discovered job; and a job that ended without
\* an outcome, or was dropped when the run was cancelled, has none.
C13_OutcomeLocationIsOneJob ==
    /\ Len(results) <= Len(pdf_files)
    /\ \A k \in 1..Len(results) : Cardinality(JobsAt(results[k]["File Location"])) = 1
    /\ \A k, l \in 1..Len(results) :
          k # l => results[k]["File Location"] # results[l]["File Location"]
    /\ \A i \in Jobs :
          NoOutcome(i) => \A k \in 1..Len(results) : results[k]["File Location"] # pdf_files[i]

\* C13 witness: two jobs in different directories have yielded outcomes with
\* the same file name.
C13_Witness ==
    /\ Len(results) = 2
    /\ results[1]["File Name"] = results[2]["File Name"]
    /\ results[1]["File Location"] # results[2]["File Location"]

\* C14: the progress indicator is advanced after every job, also one that
\* fails: when a run whose jobs were dispatched is over (and was not
\* interrupted), the progress count equals the number of discovered jobs.
C14_ProgressReachesTotal ==
    (main \in {"done", "raised"} /\ \E i \in Jobs : pc[i] # "queued")
        => progress = Len(pdf_files)

\* The files discovery has to emit: the names with a PDF extension in any
\* letter case, present at start with at least the minimum size.
PdfNames == {"a.pdf", "a_compressed.pdf", "s/B.PDF", "s/a.pdf"}
Expected ==
    {p \in PdfNames : fs_start[p].kind = "orig" /\ fs_start[p].size >= min_size * 1048576}
\* Line 160 has run.
Discovered == main \notin {"start", "exited"} \/ Len(pdf_files) > 0

\* C15: discovery emits a job for exactly the files under the root, at any
\* depth, whose name ends in the PDF extension in any letter case and whose
\* size is at least the minimum: none is missed, none is emitted twice and
\* no other file is emitted.
C15_DiscoveryExact ==
    Discovered
        => /\ {pdf_files[i] : i \in Jobs} = Expected
           /\ Len(pdf_files) = Cardinality(Expected)

\* C15 witness: with a minimum size of 2 MB, the upper-case PDF in the
\* subdirectory is emitted and a smaller PDF, or a file that is no PDF, is
\* not.
C15_Witness ==
    /\ Discovered
    /\ min_size = 2
    /\ pdf_files = <<"s/B.PDF">>
    /\ fs_start["a.pdf"].kind = "orig" \/ fs_start["n.txt"].kind = "orig"

\* C16 (under CallSpec): a call made with the cancellation flag set returns
\* None and does no work: the engine is not invoked and no file is created,
\* modified, removed or renamed.
C16_CancelledCallDoesNothing ==
    stop_execution
        => /\ fs = fs_start
           /\ gs_calls = {}
           /\ \A i \in Jobs : pc[i] = "queued" \/ (pc[i] = "done" /\ ret[i] = RetNone("stopped"))

\* C16 witness: a real-mode call for an existing file, made with the flag
\* set, has returned.
C16_Witness ==
    /\ stop_execution
    /\ ~dry_run
    /\ Exists(fs_start, pdf_files[1])
    /\ pc[1] = "done"

\* C17: in real mode a job yields an outcome if and only if its original was
\* replaced by the engine output for it, which happens only when the output
\* is not larger than the original; so the sizes an outcome records are a
\* compressed size not above the original size and a reduction between 0
\* and 100 percent. Stated of the step that ends the call of job i.
C17_OutcomeIffReplaced ==
    [][\A i \in Jobs :
        (~dry_run /\ pc[i] # "done" /\ pc'[i] = "done")
            => /\ (ret'[i][1] = "outcome")
                    <=> (fs'[pdf_files[i]] = Output(pdf_files[i], new_size[i]))
               /\ (ret'[i][1] = "outcome")
                    => /\ new_size[i] <= original_size[i]
                       /\ ret'[i][2]["Compressed Size (MB)"] <= ret'[i][2]["Original Size (MB)"]
                       /\ ret'[i][2]["Size Reduction (%)"] \in 0..10000]_vars

\* The outcomes among the returned values of the first n jobs, in job order.
RECURSIVE Collected(_)
Collected(n) ==
    IF n = 0 THEN <<>>
    ELSE IF Truthy(ret[n]) THEN Append(Collected(n - 1), ret[n][2])
         ELSE Collected(n - 1)

====
